---- MODULE Spec2Model ----
(***************************************************************************)
(* A model of poly_approx's approximator (src/extrapolator.py): a table of *)
(* Newton divided differences ("deltas"), each rank a pair (value, time).  *)
(*                                                                         *)
(* Numbers.  The Python code computes with whatever numbers it is given;   *)
(* the properties studied here are the algebraic ones, so values are exact *)
(* rationals <<num, den>> (den > 0, lowest terms) and times are integers.  *)
(* A table is a sequence of <<value, time>>; rank i of the code (0-based)  *)
(* is element i+1 here.  A Python None result is the empty tuple <<>>, any *)
(* other result x is <<x>>.                                                *)
(***************************************************************************)
EXTENDS Integers, Sequences, FiniteSets, TLC

VARIABLES
    deltas,     \* self.deltas of the object under operation ("obj")
    other,      \* a second approximator (ref_obj / the right operand / rest)
    poly,       \* coefficients of the sampled function (base_fns[0]), ascending
    log,        \* the last calls on obj, newest first: [op, args, pre, ret]
    steps,      \* number of calls made so far
    shared      \* obj.deltas and other.deltas are one and the same list object

vars == <<deltas, other, poly, log, steps, shared>>

(***************************************************************************)
(* Bounds of the model                                                     *)
(***************************************************************************)
MaxTime == 2
MaxVal == 1
MaxRanks == 3
MaxSteps == 4
MaxCoefs == 5

Times == 0..MaxTime
Vals == (-1)..MaxVal

(***************************************************************************)
(* Exact rational arithmetic                                               *)
(***************************************************************************)
RECURSIVE GCD(_, _)
GCD(a, b) == IF b = 0 THEN a ELSE GCD(b, a % b)

IAbs(n) == IF n < 0 THEN -n ELSE n

RNorm(n, d) ==
    LET g == GCD(IAbs(n), IAbs(d))
        s == IF d < 0 THEN -1 ELSE 1
    IN  <<(s * n) \div g, (s * d) \div g>>

Rat(n) == <<n, 1>>
RAdd(x, y) == RNorm(x[1] * y[2] + y[1] * x[2], x[2] * y[2])
RNeg(x) == <<-x[1], x[2]>>
RSub(x, y) == RAdd(x, RNeg(y))
RMul(x, y) == RNorm(x[1] * y[1], x[2] * y[2])
\* x / y, y # 0
RDiv(x, y) == RNorm(x[1] * y[2], x[2] * y[1])
\* math.fabs(x)
RAbs(x) == <<IAbs(x[1]), x[2]>>
\* x > y
RGt(x, y) == x[1] * y[2] > y[1] * x[2]
RIsZero(x) == x[1] = 0

RECURSIVE Factorial(_)
Factorial(n) == IF n <= 0 THEN 1 ELSE n * Factorial(n - 1)

(***************************************************************************)
(* Python list helpers                                                     *)
(***************************************************************************)
None == <<>>
Some(x) == <<x>>

IMin(a, b) == IF a < b THEN a ELSE b
IMax(a, b) == IF a > b THEN a ELSE b

\* lst[:n] for an integer n (negative n counts from the end)
Take(lst, n) ==
    LET m == IF n < 0 THEN IMax(Len(lst) + n, 0) ELSE IMin(n, Len(lst))
    IN  SubSeq(lst, 1, m)

\* lst[n:] for n >= 0
Drop(lst, n) == SubSeq(lst, IMin(n, Len(lst)) + 1, Len(lst))

ValOf(d, i) == d[i][1]
TimeOf(d, i) == d[i][2]

(***************************************************************************)
(* approximator.num_deltas(min_val): min_val = None is NumDeltas, a given  *)
(* min_val is NumDeltasMin                                                 *)
(***************************************************************************)
NumDeltas(d) == Len(d)

NumDeltasMin(d, min_val) ==
    LET sig == {i \in 1..Len(d) : RGt(RAbs(ValOf(d, i)), min_val)}
    IN  IF sig = {} THEN 0 ELSE CHOOSE i \in sig : \A j \in sig : j <= i

(***************************************************************************)
(* approximator.__next_times                                               *)
(***************************************************************************)
NextTimes(d, time0) == <<time0>> \o [i \in 1..Len(d) |-> TimeOf(d, i)]

(***************************************************************************)
(* approximator.approximate.  ApproxLoop is the for-loop at rank i         *)
(* (1-based), nd the next_deltas filled so far, ni num_independ.  It gives *)
(* None when a zero delta_t is met, else <<next_deltas, num_independ>>.    *)
(***************************************************************************)
RECURSIVE ApproxLoop(_, _, _, _, _)
ApproxLoop(d, time0, i, nd, ni) ==
    IF i > Len(d) THEN Some(<<nd, ni>>)
    ELSE LET delta_t == time0 - TimeOf(d, i)
             delta_v == RSub(nd[i], ValOf(d, i))
         IN  IF delta_t = 0 THEN None
             ELSE ApproxLoop(d, time0, i + 1,
                             Append(nd, RDiv(delta_v, Rat(delta_t))),
                             IF ~RIsZero(delta_v) THEN i + 1 ELSE ni)

\* approximate() as its earliest variant had it: rank 0 is overwritten
\* before the loop meets the zero delta_t
ApproximateInPlace(d, val0, time0) ==
    LET loop == ApproxLoop(d, time0, 1, <<val0>>, 1)
    IN  IF loop = None THEN [d |-> [d EXCEPT ![1] = <<val0, time0>>], r |-> None]
        ELSE LET new == [i \in 1..(Len(d) + 1) |->
                            <<loop[1][1][i], NextTimes(d, time0)[i]>>]
             IN  [d |-> new, r |-> Some(Len(new) - loop[1][2])]

\* approximate() cutting the redundant ranks itself
ApproximateTrimmed(d, val0, time0) ==
    LET loop == ApproxLoop(d, time0, 1, <<val0>>, 1)
    IN  IF loop = None THEN [d |-> d, r |-> None]
        ELSE LET new == [i \in 1..loop[1][2] |->
                            <<loop[1][1][i], NextTimes(d, time0)[i]>>]
             IN  [d |-> new, r |-> Some(Len(d) + 1 - loop[1][2])]

\* [d |-> self.deltas afterwards, r |-> the returned value]
Approximate(d, val0, time0) ==
    LET next_times == NextTimes(d, time0)
        loop == ApproxLoop(d, time0, 1, <<val0>>, 1)
    IN  IF loop = None THEN [d |-> d, r |-> None]
        ELSE LET next_deltas == loop[1][1]
                 num_independ == loop[1][2]
                 new == [i \in 1..Len(next_times) |-> <<next_deltas[i], next_times[i]>>]
             IN  [d |-> new, r |-> Some(Len(new) - num_independ)]

(***************************************************************************)
(* approximator.rewind (called on a table with at least one rank)          *)
(***************************************************************************)
\* rewind() taking each rank's own time for the time moved into the upper rank
RewindOwnTimes(d) ==
    LET time0 == TimeOf(d, 1)
    IN  [i \in 1..(Len(d) - 1) |->
            LET t == TimeOf(d, i)
                delta_v == RMul(ValOf(d, i + 1), Rat(time0 - t))
            IN  <<RSub(ValOf(d, i), delta_v), t>>]

Rewind(d) ==
    LET time0 == TimeOf(d, 1)
    IN  [i \in 1..(Len(d) - 1) |->
            LET t == TimeOf(d, i + 1)
                delta_v == RMul(ValOf(d, i + 1), Rat(time0 - t))
            IN  <<RSub(ValOf(d, i), delta_v), t>>]

(***************************************************************************)
(* approximator.extrapolate.  ExtrapLoop is the descending for-loop, at    *)
(* rank i (1-based); rank i + 1 already holds its updated value.           *)
(***************************************************************************)
\* the loop of extrapolate() run upward: each rank integrates the value the
\* rank above held before the call
ExtrapLoopStale(d, time0, next_times, i) ==
    [j \in 1..Len(d) |->
        IF j > i THEN d[j]
        ELSE <<RAdd(ValOf(d, j), RMul(ValOf(d, j + 1), Rat(time0 - TimeOf(d, j)))),
               next_times[j]>>]

RECURSIVE ExtrapLoop(_, _, _, _)
ExtrapLoop(d, time0, next_times, i) ==
    IF i < 1 THEN d
    ELSE LET delta_t == time0 - TimeOf(d, i)
             delta_v == RMul(ValOf(d, i + 1), Rat(delta_t))
         IN  ExtrapLoop([d EXCEPT ![i] = <<RAdd(ValOf(d, i), delta_v), next_times[i]>>],
                        time0, next_times, i - 1)

\* extrapolate() giving every rank the time extrapolated to
ExtrapolateFlatTimes(d, time0, keep_time) ==
    IF Len(d) < 1 THEN [d |-> d, r |-> None]
    ELSE LET n == Len(d)
             next_times == [i \in 1..n |-> time0]
             d1 == IF ~keep_time
                   THEN [d EXCEPT ![n] = <<ValOf(d, n), next_times[n]>>]
                   ELSE d
             d2 == ExtrapLoop(d1, time0, next_times, n - 1)
         IN  [d |-> d2, r |-> Some(ValOf(d2, 1))]

Extrapolate(d, time0, keep_time) ==
    IF Len(d) < 1 THEN [d |-> d, r |-> None]
    ELSE LET n == Len(d)
             next_times == Take(NextTimes(d, time0), n)
             d1 == IF ~keep_time
                   THEN [d EXCEPT ![n] = <<ValOf(d, n), next_times[n]>>]
                   ELSE d
             d2 == ExtrapLoop(d1, time0, next_times, n - 1)
         IN  [d |-> d2, r |-> Some(ValOf(d2, 1))]

(***************************************************************************)
(* approximator.make_derivs(time, delta_rank), both given.  MakeDerivsLoop *)
(* is the for-loop at rank i (0-based, as in the code).                    *)
(***************************************************************************)
\* make_derivs() that extrapolates once and takes the intervals as collapsed
MakeDerivsOnce(d, time, delta_rank, i) ==
    IF TimeOf(d, 1) # time
    THEN LET e == Extrapolate(d, time, FALSE)
         IN  [d |-> e.d, r |-> e.r # None]
    ELSE [d |-> d, r |-> TRUE]

RECURSIVE MakeDerivsLoop(_, _, _, _)
MakeDerivsLoop(d, time, delta_rank, i) ==
    IF i > delta_rank THEN [d |-> d, r |-> TRUE]
    ELSE IF TimeOf(d, i + 1) # time
         THEN LET e == Extrapolate(d, time, FALSE)
              IN  IF e.r = None THEN [d |-> e.d, r |-> FALSE]
                  ELSE MakeDerivsLoop(e.d, time, delta_rank, i + 1)
         ELSE MakeDerivsLoop(d, time, delta_rank, i + 1)

MakeDerivs(d, time, delta_rank) ==
    IF delta_rank < 0 THEN [d |-> d, r |-> FALSE]
    ELSE MakeDerivsLoop(d, time, delta_rank, 0)

\* make_derivs(time) with delta_rank defaulted to the last rank
MakeDerivsAll(d, time) == MakeDerivs(d, time, Len(d) - 1)

(***************************************************************************)
(* approximator.differentiate(time0) and integrate(val0, time0)            *)
(***************************************************************************)
Differentiate(d, time0) ==
    LET m == MakeDerivsAll(d, time0)
    IN  IF ~m.r THEN [d |-> m.d, r |-> FALSE]
        ELSE [d |-> [i \in 1..(Len(m.d) - 1) |->
                        <<RMul(ValOf(m.d, i + 1), Rat(i)), TimeOf(m.d, i + 1)>>],
              r |-> TRUE]

\* integrate() dividing rank i by i, as differentiate() multiplies
IntegrateOffByOne(d, val0, time0) ==
    LET m == MakeDerivsAll(d, time0)
    IN  IF ~m.r THEN [d |-> m.d, r |-> FALSE]
        ELSE LET int_deltas == [i \in 1..Len(m.d) |->
                                   <<RDiv(ValOf(m.d, i), Rat(i + 1)), TimeOf(m.d, i)>>]
             IN  [d |-> <<<<val0, TimeOf(m.d, 1)>>>> \o int_deltas, r |-> TRUE]

Integrate(d, val0, time0) ==
    LET m == MakeDerivsAll(d, time0)
    IN  IF ~m.r THEN [d |-> m.d, r |-> FALSE]
        ELSE LET int_deltas == [i \in 1..Len(m.d) |->
                                   <<RDiv(ValOf(m.d, i), Rat(i)), TimeOf(m.d, i)>>]
             IN  [d |-> <<<<val0, TimeOf(m.d, 1)>>>> \o int_deltas, r |-> TRUE]

(***************************************************************************)
(* approximator.get_poly_coefs(time) and from_poly_coefs(coefs, time)      *)
(***************************************************************************)
GetPolyCoefs(d, time) ==
    LET m == MakeDerivsAll(d, time)
    IN  IF ~m.r THEN [d |-> m.d, r |-> None]
        ELSE [d |-> m.d, r |-> Some([i \in 1..Len(m.d) |-> ValOf(m.d, i)])]

FromPolyCoefs(coefs, time) == [i \in 1..Len(coefs) |-> <<coefs[i], time>>]

(***************************************************************************)
(* approximator.reduce(max_rank, min_val, as_deriv, keep_time); max_rank   *)
(* and min_val are None or Some(x).  With keep_time the code indexes       *)
(* deltas[-1] before and after the cut, so it is called only where the     *)
(* table is non-empty before and after.                                    *)
(***************************************************************************)
Slice(lst, max_rank) == IF max_rank = None THEN lst ELSE Take(lst, max_rank[1])

\* the for/else scan of reduce: the new max_rank
ReduceScan(d, max_rank, min_val, as_deriv) ==
    LET n == Len(Slice(d, max_rank))
        scaled(i) == IF as_deriv THEN RMul(ValOf(d, i + 1), Rat(Factorial(i)))
                     ELSE ValOf(d, i + 1)
        sig == {i \in 1..(n - 1) : RGt(RAbs(scaled(i)), min_val)}
    IN  IF sig = {} THEN 0
        ELSE (CHOOSE i \in sig : \A j \in sig : j <= i) + 1

\* reduce() whose keep_time stamps the kept time on rank 0
ReduceStampsRankZero(d, max_rank, min_val, as_deriv, keep_time) ==
    LET cut == IF min_val # None
               THEN Some(ReduceScan(d, max_rank, min_val[1], as_deriv))
               ELSE max_rank
        d1 == Slice(d, cut)
        d2 == IF keep_time
              THEN [d1 EXCEPT ![1] = <<ValOf(d1, 1), TimeOf(d, Len(d))>>]
              ELSE d1
    IN  [d |-> d2, r |-> Some(Len(d2))]

Reduce(d, max_rank, min_val, as_deriv, keep_time) ==
    LET cut == IF min_val # None
               THEN Some(ReduceScan(d, max_rank, min_val[1], as_deriv))
               ELSE max_rank
        d1 == Slice(d, cut)
        d2 == IF keep_time
              THEN [d1 EXCEPT ![Len(d1)] = <<ValOf(d1, Len(d1)), TimeOf(d, Len(d))>>]
              ELSE d1
    IN  [d |-> d2, r |-> Some(Len(d2))]

(***************************************************************************)
(* approximator.find_gap(min_ranks, max_val, as_deriv): FindGapLoop is the *)
(* for-loop at rank i (0-based), with the locals first and ranks.          *)
(***************************************************************************)
\* find_gap() that keeps counting across a significant rank (no ranks = 0)
FindGapNoReset(d, min_ranks, max_val, as_deriv, i, first, ranks) ==
    LET small(j) == ~RGt(RAbs(IF as_deriv
                              THEN RMul(ValOf(d, j + 1), Rat(Factorial(j)))
                              ELSE ValOf(d, j + 1)), max_val)
        smalls(j) == Cardinality({k \in 0..(j - 1) : small(k)})
        stops == {j \in 0..(Len(d) - 1) : ~small(j) /\ smalls(j) >= min_ranks}
        bigs == {j \in 0..(Len(d) - 1) : ~small(j)}
    IN  IF stops = {}
        THEN <<IF bigs = {} THEN 0 ELSE (CHOOSE j \in bigs : \A k \in bigs : k <= j) + 1,
               None>>
        ELSE LET stop == CHOOSE j \in stops : \A k \in stops : j <= k
                 before == {j \in bigs : j < stop}
             IN  <<IF before = {} THEN 0
                   ELSE (CHOOSE j \in before : \A k \in before : k <= j) + 1,
                   Some(smalls(stop))>>

RECURSIVE FindGapLoop(_, _, _, _, _, _, _)
FindGapLoop(d, min_ranks, max_val, as_deriv, i, first, ranks) ==
    IF i >= Len(d) THEN <<first, None>>
    ELSE LET v == IF as_deriv THEN RMul(ValOf(d, i + 1), Rat(Factorial(i)))
                  ELSE ValOf(d, i + 1)
         IN  IF ~RGt(RAbs(v), max_val)
             THEN FindGapLoop(d, min_ranks, max_val, as_deriv, i + 1, first, ranks + 1)
             ELSE IF ranks < min_ranks
                  THEN FindGapLoop(d, min_ranks, max_val, as_deriv, i + 1, i + 1, 0)
                  ELSE <<first, Some(ranks)>>

FindGap(d, min_ranks, max_val, as_deriv) ==
    FindGapLoop(d, min_ranks, max_val, as_deriv, 0, 0, 0)

(***************************************************************************)
(* approximator.__add__, __neg__, __sub__: None, or Some(the new table)    *)
(***************************************************************************)
\* __add__ without the remainder of the longer operand
AddNoRemainder(d, e) ==
    LET m == IMin(Len(d), Len(e))
    IN  IF \E i \in 1..m : TimeOf(d, i) # TimeOf(e, i) THEN None
        ELSE Some([i \in 1..m |-> <<RAdd(ValOf(d, i), ValOf(e, i)), TimeOf(d, i)>>])

Add(d, e) ==
    LET m == IMin(Len(d), Len(e))
    IN  IF \E i \in 1..m : TimeOf(d, i) # TimeOf(e, i) THEN None
        ELSE LET sum == [i \in 1..m |-> <<RAdd(ValOf(d, i), ValOf(e, i)), TimeOf(d, i)>>]
                 rem_deltas == IF Len(d) > Len(e) THEN d ELSE e
             IN  Some(IF Len(d) # Len(e) THEN sum \o Drop(rem_deltas, m) ELSE sum)

Neg(d) == [i \in 1..Len(d) |-> <<RNeg(ValOf(d, i)), TimeOf(d, i)>>]

Sub(d, e) == Add(d, Neg(e))

(***************************************************************************)
(* approximator.align_times(ref_obj): AlignLoop extrapolates to the times  *)
(* ref[j], ref[j-1], ..., ref[1]                                           *)
(***************************************************************************)
RECURSIVE AlignLoop(_, _, _)
AlignLoop(d, ref, j) ==
    IF j < 1 THEN [d |-> d, r |-> TRUE]
    ELSE LET e == Extrapolate(d, TimeOf(ref, j), FALSE)
         IN  IF e.r = None THEN [d |-> e.d, r |-> FALSE]
             ELSE AlignLoop(e.d, ref, j - 1)

\* align_times() taking the reference times in ascending rank order
AlignTimesForward(d, ref) ==
    LET n == Len(Take(ref, Len(d)))
        F[j \in 0..n] ==
            IF j = 0 THEN [d |-> d, r |-> TRUE]
            ELSE IF ~F[j - 1].r THEN F[j - 1]
                 ELSE LET e == Extrapolate(F[j - 1].d, TimeOf(ref, j), FALSE)
                      IN  [d |-> e.d, r |-> e.r # None]
    IN  F[n]

AlignTimes(d, ref) == AlignLoop(d, ref, Len(Take(ref, Len(d))))

(***************************************************************************)
(* approximator.split_at_gap(split_rank), 0 <= split_rank - 1 <= ranks:    *)
(* d is self afterwards, r the returned rest_obj (None on failure)         *)
(***************************************************************************)
RECURSIVE RewindTimes(_, _)
RewindTimes(d, n) == IF n <= 0 THEN d ELSE RewindTimes(Rewind(d), n - 1)

\* split_at_gap() returning the rewound cut-out without adding self back
SplitAtGapCutOut(d, split_rank) ==
    LET self == Reduce(d, Some(split_rank), None, FALSE, FALSE).d
    IN  [d |-> self, r |-> Some(RewindTimes(Sub(d, self)[1], split_rank - 1))]

SplitAtGap(d, split_rank) ==
    LET self == Reduce(d, Some(split_rank), None, FALSE, FALSE).d
        diff == Sub(d, self)[1]
        rest_obj == RewindTimes(diff, split_rank - 1)
        align_obj == AlignTimes(self, rest_obj)
    IN  IF ~align_obj.r THEN [d |-> self, r |-> None]
        ELSE [d |-> self, r |-> Add(rest_obj, align_obj.d)]

(***************************************************************************)
(* The sampled function of the tests (base_fns[0]): a polynomial with      *)
(* ascending integer coefficients p, evaluated at the integer x            *)
(***************************************************************************)
RECURSIVE PolyVal(_, _)
PolyVal(p, x) == IF p = <<>> THEN 0 ELSE Head(p) + x * PolyVal(Tail(p), x)

(***************************************************************************)
(* The harness.  log keeps the last two calls, newest first; each entry    *)
(* holds the table the call found (pre) and what it returned (ret).        *)
(***************************************************************************)
Call(op, args, pre, ret) == [op |-> op, args |-> args, pre |-> pre, ret |-> ret]

Push(entry) == Take(<<entry>> \o log, 2)

Init ==
    /\ deltas = <<>>
    /\ other = <<>>
    /\ poly = <<>>
    /\ log = <<>>
    /\ steps = 0
    /\ shared = FALSE

\* the calls after which obj is still fed samples: the destructive
\* transforms run on tables that are no longer approximated
LiveOps == {"approximate", "rewind", "reduce"}

\* res = obj.approximate(val0, time0)
DoApproximate ==
    /\ steps < MaxSteps
    /\ log # <<>> => log[1].op \in LiveOps
    /\ Len(deltas) < MaxRanks
    /\ \E v \in Vals, t \in Times :
          LET a == Approximate(deltas, Rat(v), t)
          IN  /\ deltas' = a.d
              /\ log' = Push(Call("approximate", <<Rat(v), t>>, deltas, a.r))
    /\ steps' = steps + 1
    /\ UNCHANGED <<other, poly, shared>>

\* obj.rewind()
DoRewind ==
    /\ steps < MaxSteps
    /\ Len(deltas) >= 1
    /\ deltas' = Rewind(deltas)
    /\ log' = Push(Call("rewind", <<>>, deltas, None))
    /\ steps' = steps + 1
    /\ UNCHANGED <<other, poly, shared>>

\* if res > 0: obj.reduce(-res, keep_time=True)     (test_main.py:92-94)
DoReduceRes ==
    /\ steps < MaxSteps
    /\ log # <<>>
    /\ log[1].op = "approximate"
    /\ log[1].ret # None
    /\ log[1].ret[1] > 0
    /\ LET c == Reduce(deltas, Some(-log[1].ret[1]), None, FALSE, TRUE)
       IN  /\ deltas' = c.d
           /\ log' = Push(Call("reduce", <<-log[1].ret[1]>>, deltas, c.r))
    /\ steps' = steps + 1
    /\ UNCHANGED <<other, poly, shared>>

\* assert res is not None, 'Approximation failed'
ApproximationFailed == log # <<>> /\ log[1].op = "approximate" /\ log[1].ret = None

\* obj.approximate(val0, time0), as long as no call has failed
DoBuild == ~ApproximationFailed /\ DoApproximate

Next == DoApproximate \/ DoRewind \/ DoReduceRes

Spec == Init /\ [][Next]_vars

(***************************************************************************)
(* Properties of approximate() and rewind()                                *)
(***************************************************************************)
LastIs(op) == log # <<>> /\ log[1].op = op

\* the last call was approximate() with a time some rank of the table held
DuplicateTime ==
    /\ LastIs("approximate")
    /\ \E i \in 1..Len(log[1].pre) : TimeOf(log[1].pre, i) = log[1].args[2]

\* C1: approximate(value, time) with a time that equals the time of any
\* rank of the table returns None and leaves the rank table exactly as it
\* was (same rank count, values and times).
C1_DuplicateTimestampIntact ==
    DuplicateTime => (log[1].ret = None /\ deltas = log[1].pre)

\* the duplicate is met at a rank above rank 0, in a table of two ranks or more
C1_Witness ==
    /\ DuplicateTime
    /\ Len(log[1].pre) >= 2
    /\ TimeOf(log[1].pre, 1) # log[1].args[2]
    /\ ValOf(log[1].pre, 1) # log[1].args[1]

\* the last two calls were a successful approximate() and then rewind()
ApproximateThenRewind ==
    /\ Len(log) >= 2
    /\ log[1].op = "rewind"
    /\ log[2].op = "approximate"
    /\ log[2].ret # None

\* C2: rewind() after a successful approximate(value, time) restores the
\* rank table the approximate() call found: same rank count, and every
\* rank's value and time.
C2_RewindInvertsApproximate ==
    ApproximateThenRewind => deltas = log[2].pre

\* the table restored has two ranks with a non-zero difference, and the
\* sample backed out was not on the old trend
C2_Witness ==
    /\ ApproximateThenRewind
    /\ Len(deltas) >= 2
    /\ ~RIsZero(ValOf(deltas, 2))
    /\ log[2].ret = Some(0)

\* the last call was a successful approximate()
ApproximateDone == LastIs("approximate") /\ log[1].ret # None

\* the sample is what the table predicted: the new top difference is zero
FullyExplained ==
    /\ ApproximateDone
    /\ Len(log[1].pre) >= 1
    /\ RIsZero(ValOf(deltas, Len(deltas)))

\* C3 as stated: a successful approximate() appends one rank, or leaves the
\* rank count unchanged when the sample is fully explained by the table.
C3_Original ==
    ApproximateDone =>
        IF FullyExplained THEN Len(deltas) = Len(log[1].pre)
        ELSE Len(deltas) = Len(log[1].pre) + 1

\* C3 amended: every successful approximate() appends exactly one rank; a
\* fully explained sample shows as a zero top rank and a positive result,
\* and it is left to the caller to cut that rank with reduce().
C3_AlwaysAppends ==
    /\ ApproximateDone => Len(deltas) = Len(log[1].pre) + 1
    /\ FullyExplained => log[1].ret[1] >= 1

C3_Witness ==
    /\ FullyExplained
    /\ Len(log[1].pre) >= 2
    /\ ~RIsZero(ValOf(deltas, 2))

\* C4: whenever approximate() returns res > 0, res is the number of
\* trailing zero ranks: res + num_deltas(0) = num_deltas().
C4_ResCountsTrailingZeros ==
    (ApproximateDone /\ log[1].ret[1] > 0) =>
        log[1].ret[1] + NumDeltasMin(deltas, Rat(0)) = NumDeltas(deltas)

(***************************************************************************)
(* Sampling a polynomial (test_main.py): obj is fed samples of base_fns[0] *)
(* at any times and in any order; its coefficients are read from a copy;   *)
(* e_obj (other) is a copy of obj, taken once obj holds the D + 1 ranks    *)
(* the test waits for, and is then extrapolated.  The copy is independent  *)
(* of obj, so obj is fed no further samples after it; the harness stops    *)
(* when approximate() fails (the test's assertion) and after two           *)
(* extrapolations in a row.                                                *)
(***************************************************************************)
\* the polynomials sampled: degree D < MaxRanks, D + 1 coefficients
Polys ==
    UNION {{p \in [1..n -> Vals] : n > 1 => p[n] # 0} : n \in 1..MaxRanks}

InitPoly ==
    /\ deltas = <<>>
    /\ other = <<>>
    /\ poly \in Polys
    /\ log = <<>>
    /\ steps = 0
    /\ shared = FALSE

\* res = obj.approximate(base_fns[0](time), time)
DoSample ==
    /\ ~ApproximationFailed
    /\ other = <<>>
    /\ Len(deltas) < MaxRanks
    /\ \E t \in Times :
          LET a == Approximate(deltas, Rat(PolyVal(poly, t)), t)
          IN  /\ deltas' = a.d
              /\ log' = Push(Call("approximate", <<Rat(PolyVal(poly, t)), t>>, deltas, a.r))
    /\ UNCHANGED <<other, poly, steps, shared>>

\* coefs = obj.copy().get_poly_coefs()
DoGetPolyCoefs ==
    /\ ~ApproximationFailed
    /\ other = <<>>
    /\ log # <<>> /\ log[1].op # "get_poly_coefs"
    /\ log' = Push(Call("get_poly_coefs", <<0>>, deltas, GetPolyCoefs(deltas, 0).r))
    /\ UNCHANGED <<deltas, other, poly, steps, shared>>

\* if e_obj.num_deltas() < len(base_fns): e_obj = obj.copy()
DoKeyCopy ==
    /\ ~ApproximationFailed
    /\ NumDeltas(other) < Len(poly)
    /\ NumDeltas(deltas) >= Len(poly)
    /\ other' = deltas
    /\ log' = Push(Call("copy", <<>>, deltas, Some(deltas)))
    /\ UNCHANGED <<deltas, poly, steps, shared>>

\* e_res = e_obj.extrapolate(time, keep_time)
DoExtrapolateCopy ==
    /\ other # <<>>
    /\ log[2].op # "e_extrapolate"
    /\ \E t \in Times, keep_time \in BOOLEAN :
          LET e == Extrapolate(other, t, keep_time)
          IN  /\ other' = e.d
              /\ log' = Push(Call("e_extrapolate", <<t, keep_time>>, other, e.r))
    /\ UNCHANGED <<deltas, poly, steps, shared>>

NextPoly == DoSample \/ DoKeyCopy \/ DoExtrapolateCopy \/ DoGetPolyCoefs

SpecPoly == InitPoly /\ [][NextPoly]_vars

\* the coefficients of poly as exact values
PolyCoefs == [i \in 1..Len(poly) |-> Rat(poly[i])]

\* get_poly_coefs() was called on a table built from exactly D + 1 samples
CoefsOfFullTable ==
    /\ LastIs("get_poly_coefs")
    /\ Len(deltas) = Len(poly)

\* C5: after D + 1 samples of a degree-D polynomial at pairwise distinct
\* times, taken in any order, get_poly_coefs() returns the polynomial's
\* own coefficients in ascending order.
C5_ExactConvergence ==
    CoefsOfFullTable => log[1].ret = Some(PolyCoefs)

\* a parabola sampled at times that neither increase nor decrease
C5_Witness ==
    /\ CoefsOfFullTable
    /\ Len(poly) = 3
    /\ poly[2] # 0
    /\ TimeOf(deltas, 2) < TimeOf(deltas, 1)
    /\ TimeOf(deltas, 2) < TimeOf(deltas, 3)

\* e_obj, a copy of a table of at least D + 1 ranks, was extrapolated
ExtrapolatedCopy ==
    /\ LastIs("e_extrapolate")
    /\ Len(other) >= Len(poly)

\* C6: once the table holds at least D + 1 ranks, extrapolate(t) on a copy
\* returns the polynomial's value at t, for any t, and keeps doing so when
\* the same copy is extrapolated again and again.
C6_ExtrapolationExact ==
    ExtrapolatedCopy => log[1].ret = Some(Rat(PolyVal(poly, log[1].args[1])))

\* two extrapolations in a row with keep_time, to different times, of a
\* copy of a parabola's table
C6_Witness ==
    /\ ExtrapolatedCopy
    /\ Len(log) >= 2
    /\ log[2].op = "e_extrapolate"
    /\ log[1].args[2] /\ log[2].args[2]
    /\ log[1].args[1] # log[2].args[1]
    /\ Len(poly) = 3
    /\ log[1].ret # log[2].ret

(***************************************************************************)
(* Differentiating and integrating (test_integrate-differentiate.py): a    *)
(* table built by approximate() is differentiated at a time t and then     *)
(* integrated at the same t.                                               *)
(***************************************************************************)
\* diff_obj.differentiate(t)
DoDifferentiate ==
    /\ log # <<>> => (log[1].op = "approximate" /\ log[1].ret # None)
    /\ \E t \in Times :
          LET c == Differentiate(deltas, t)
          IN  /\ deltas' = c.d
              /\ log' = Push(Call("differentiate", <<t>>, deltas, c.r))
    /\ UNCHANGED <<other, poly, steps, shared>>

\* int_obj.integrate(val0, t)
DoIntegrate ==
    /\ LastIs("differentiate")
    /\ \E v \in Vals :
          LET t == log[1].args[1]
              c == Integrate(deltas, Rat(v), t)
          IN  /\ deltas' = c.d
              /\ log' = Push(Call("integrate", <<Rat(v), t>>, deltas, c.r))
    /\ UNCHANGED <<other, poly, steps, shared>>

NextCalc == DoBuild \/ DoDifferentiate \/ DoIntegrate

SpecCalc == Init /\ [][NextCalc]_vars

\* the last two calls were differentiate(t) and integrate(v0, t)
DifferentiateThenIntegrate ==
    /\ Len(log) >= 2
    /\ log[1].op = "integrate"
    /\ log[2].op = "differentiate"

\* the table holds v0 at t in rank 0 and, in every rank i >= 1, the value
\* that rank of M held before differentiate(t), converted to the point t
ShapeRestored(M, v0, t) ==
    /\ log[2].ret /\ log[1].ret
    /\ Len(deltas) = Len(M)
    /\ deltas[1] = <<v0, t>>
    /\ LET at_t == MakeDerivsAll(M, t).d
       IN  \A i \in 2..Len(deltas) : deltas[i] = <<ValOf(at_t, i), t>>

\* C7 as stated: for every model M, a single rank included,
\* M.differentiate(t); M.integrate(v0, t) succeeds and restores every rank
\* >= 1 of M at t, with v0 in rank 0 and the rank count of M.
C7_Original ==
    (DifferentiateThenIntegrate /\ Len(log[2].pre) >= 1) => ShapeRestored(log[2].pre, log[1].args[1], log[1].args[2])

\* C7 amended: this holds for every model of two ranks or more.  On a model
\* of one rank differentiate(t) succeeds and leaves no rank, and
\* integrate(v0, t) then fails and leaves the table empty; on a model of no
\* rank both fail.
C7_CalculusInverse ==
    DifferentiateThenIntegrate =>
        IF Len(log[2].pre) >= 2
        THEN ShapeRestored(log[2].pre, log[1].args[1], log[1].args[2])
        ELSE /\ log[2].ret = (Len(log[2].pre) = 1)
             /\ ~log[1].ret
             /\ deltas = <<>>

\* three ranks at three times, t not that of rank 0, and non-zero values
C7_Witness ==
    /\ DifferentiateThenIntegrate
    /\ Len(log[2].pre) = 3
    /\ TimeOf(log[2].pre, 1) # log[1].args[2]
    /\ ~RIsZero(ValOf(deltas, 3))
    /\ ~RIsZero(ValOf(deltas, 2))

(***************************************************************************)
(* Looking for a gap (test_reduce.py:64): a table is set with              *)
(* from_poly_coefs() and find_gap() is applied to it.                      *)
(***************************************************************************)
CoefLists == UNION {[1..n -> Vals] : n \in 0..MaxCoefs}

\* obj.from_poly_coefs(coefs), on the new object
DoFromPolyCoefs ==
    /\ log = <<>>
    /\ \E coefs \in CoefLists :
          LET c == [i \in 1..Len(coefs) |-> Rat(coefs[i])]
          IN  /\ deltas' = FromPolyCoefs(c, 0)
              /\ log' = Push(Call("from_poly_coefs", <<c, 0>>, deltas, None))
    /\ UNCHANGED <<other, poly, steps, shared>>

\* first, num = obj.find_gap(min_ranks, max_val, as_deriv)
DoFindGap ==
    /\ LastIs("from_poly_coefs")
    /\ \E min_ranks \in 0..MaxRanks, max_val \in 0..MaxVal, as_deriv \in BOOLEAN :
          log' = Push(Call("find_gap", <<min_ranks, Rat(max_val), as_deriv>>, deltas,
                           Some(FindGap(deltas, min_ranks, Rat(max_val), as_deriv))))
    /\ UNCHANGED <<deltas, other, poly, steps, shared>>

NextGap == DoFromPolyCoefs \/ DoFindGap

SpecGap == Init /\ [][NextGap]_vars

\* rank j (0-based) of the table find_gap() was applied to is negligible:
\* its magnitude, scaled by j! under as_deriv, is at most max_val
Negligible(j) ==
    LET v == ValOf(log[1].pre, j + 1)
    IN  ~RGt(RAbs(IF log[1].args[3] THEN RMul(v, Rat(Factorial(j))) ELSE v),
             log[1].args[2])

\* ranks first .. first+length-1 are a maximal run of negligible ranks, at
\* least min_ranks long, closed by the significant rank first+length
ClosedRun(first, length) ==
    /\ length >= log[1].args[1]
    /\ first + length < Len(log[1].pre)
    /\ \A j \in first..(first + length - 1) : Negligible(j)
    /\ ~Negligible(first + length)
    /\ first > 0 => ~Negligible(first - 1)

\* C8: find_gap(min_ranks, max_val) returns (first, length) for the first
\* maximal run of at least min_ranks negligible ranks that a significant
\* rank closes; if no such run exists it returns (first, None) and every
\* rank from first to the end of the table is negligible.
C8_FindGap ==
    LastIs("find_gap") =>
        LET first == log[1].ret[1][1]
            num == log[1].ret[1][2]
            n == Len(log[1].pre)
        IN  /\ first \in 0..n
            /\ IF num # None
               THEN /\ ClosedRun(first, num[1])
                    /\ \A f \in 0..(first - 1), l \in 0..n : ~ClosedRun(f, l)
               ELSE /\ \A f \in 0..n, l \in 0..n : ~ClosedRun(f, l)
                    /\ \A j \in first..(n - 1) : Negligible(j)

\* the pattern of the example [5, 4, 1e-16, 1e-16, 3], min_ranks = 2:
\* two significant ranks, two negligible ones, a significant one; (2, 2)
C8_Witness ==
    /\ LastIs("find_gap")
    /\ Len(log[1].pre) = 5
    /\ log[1].args[1] = 2
    /\ ~log[1].args[3]
    /\ ~Negligible(0) /\ ~Negligible(1)
    /\ Negligible(2) /\ Negligible(3)
    /\ ~Negligible(4)
    /\ log[1].ret = Some(<<2, Some(2)>>)

(***************************************************************************)
(* Splitting and recombining (test_reduce.py:50, 66): obj is built by      *)
(* approximate(); a second model (other), loaded from a polynomial or     *)
(* split off a copy of obj, is aligned to obj and added to it.             *)
(***************************************************************************)
\* the polynomials c * x^(MaxRanks-1) a second model is loaded from
SecondPolys == {[i \in 1..MaxRanks |-> IF i = MaxRanks THEN Rat(c) ELSE Rat(0)] : c \in Vals \ {0}}

\* tmp_obj.from_poly_coefs(SECOND_POLY, time), on a model of more ranks
\* than obj has
DoOtherFromPolyCoefs ==
    /\ LastIs("approximate") /\ log[1].ret # None
    /\ Len(deltas) < MaxRanks
    /\ \E c \in SecondPolys, t \in Times :
          /\ other' = FromPolyCoefs(c, t)
          /\ log' = Push(Call("tmp_from_poly_coefs", <<c, t>>, other, None))
    /\ UNCHANGED <<deltas, poly, steps, shared>>

\* rest = obj.copy().split_at_gap(split_rank)
DoSplitCopy ==
    /\ LastIs("approximate") /\ log[1].ret # None
    /\ \E k \in 1..Len(deltas) :
          LET c == SplitAtGap(deltas, k)
          IN  /\ other' = IF c.r = None THEN <<>> ELSE c.r[1]
              /\ log' = Push(Call("copy_split_at_gap", <<k>>, deltas, c.r))
    /\ UNCHANGED <<deltas, poly, steps, shared>>

\* rest.align_times(obj)
DoAlignOther ==
    /\ log # <<>>
    /\ log[1].op \in {"tmp_from_poly_coefs", "copy_split_at_gap"}
    /\ other # <<>>
    /\ LET c == AlignTimes(other, deltas)
       IN  /\ other' = c.d
           /\ log' = Push(Call("align_times", <<deltas>>, other, c.r))
    /\ UNCHANGED <<deltas, poly, steps, shared>>

\* obj + rest
DoAddOther ==
    /\ LastIs("align_times")
    /\ log' = Push(Call("add", <<other>>, deltas, Add(deltas, other)))
    /\ UNCHANGED <<deltas, other, poly, steps, shared>>

NextAlign == DoBuild \/ DoOtherFromPolyCoefs \/ DoSplitCopy \/ DoAlignOther \/ DoAddOther

SpecAlign == Init /\ [][NextAlign]_vars

\* a.align_times(b) has returned: a is other (log[1].pre before the call),
\* b is obj
Aligned == LastIs("align_times") /\ log[1].pre # <<>>

\* C9: after a.align_times(b) on a non-empty a, the call has succeeded, a
\* has the rank count it had, every rank a shares with b has b's time, and
\* so neither a + b nor b + a fails.
C9_AlignTimes ==
    Aligned =>
        /\ log[1].ret
        /\ Len(other) = Len(log[1].pre)
        /\ \A i \in 1..IMin(Len(other), Len(deltas)) : TimeOf(other, i) = TimeOf(deltas, i)
        /\ Add(other, deltas) # None
        /\ Add(deltas, other) # None

\* a had two ranks or more at times that were not b's, and b has more
\* ranks than one
C9_Witness ==
    /\ Aligned
    /\ Len(deltas) >= 2
    /\ Len(log[1].pre) >= 2
    /\ TimeOf(log[1].pre, 1) # TimeOf(deltas, 1)
    /\ TimeOf(log[1].pre, 2) # TimeOf(deltas, 2)
    /\ TimeOf(deltas, 1) # TimeOf(deltas, 2)

\* a had more ranks than b
C9_WitnessLonger ==
    /\ Aligned
    /\ Len(log[1].pre) > Len(deltas)
    /\ Len(deltas) >= 2
    /\ TimeOf(log[1].pre, 1) # TimeOf(deltas, 1)
    /\ TimeOf(deltas, 1) # TimeOf(deltas, 2)

\* the split ranks k for which rest is what M.copy().split_at_gap(k) returns
SplitRanks(M, rest) == {k \in 1..Len(M) : SplitAtGap(M, k).r = Some(rest)}

\* M + rest.align_times(M) was computed, M (obj) having two ranks or more
\* and rest being what M.copy().split_at_gap(k) returned
Recombined ==
    /\ Len(log) >= 2
    /\ log[1].op = "add"
    /\ log[2].op = "align_times"
    /\ Len(deltas) >= 2
    /\ SplitRanks(deltas, log[2].pre) # {}

\* C10 as stated: the sum M + rest.align_times(M) is defined and its
\* rank-0 value is the rank-0 value of M.
C10_Original ==
    Recombined =>
        /\ log[1].ret # None
        /\ ValOf(log[1].ret[1], 1) = ValOf(deltas, 1)

\* C10 amended: the sum is defined, and its rank-0 value is M's rank-0
\* value plus the value of rest at M's rank-0 time; rest is not a
\* remainder that vanishes there: for k = 1 it is M itself, and for every k
\* it gives, extrapolated to the time of any rank of M from k-1 up, the
\* value M gives there.
C10_SplitRecombine ==
    Recombined =>
        /\ log[1].ret # None
        /\ ValOf(log[1].ret[1], 1) =
              RAdd(ValOf(deltas, 1), Extrapolate(log[2].pre, TimeOf(deltas, 1), FALSE).r[1])
        /\ \A k \in SplitRanks(deltas, log[2].pre) :
              /\ k = 1 => log[2].pre = deltas
              /\ \A i \in k..Len(deltas) :
                    Extrapolate(log[2].pre, TimeOf(deltas, i), FALSE).r =
                    Extrapolate(deltas, TimeOf(deltas, i), FALSE).r

\* a split at rank 2 of a table of three ranks with a non-zero top rank
C10_Witness ==
    /\ Recombined
    /\ Len(deltas) = 3
    /\ ~RIsZero(ValOf(deltas, 3))
    /\ 2 \in SplitRanks(deltas, log[2].pre)
    /\ 1 \notin SplitRanks(deltas, log[2].pre)
    /\ ValOf(log[1].ret[1], 1) # ValOf(deltas, 1)

(***************************************************************************)
(* The rank times extrapolate() leaves (checked under SpecPoly, on the     *)
(* extrapolated copy e_obj).                                               *)
(***************************************************************************)
\* e_obj.extrapolate(time, keep_time) has returned on a non-empty e_obj
ExtrapolateCalled == LastIs("e_extrapolate") /\ log[1].pre # <<>>

\* C13 as stated: after extrapolate(time, keep_time) on a non-empty model
\* every rank has the time `time`, except that the top rank keeps its time
\* when keep_time is set.
C13_Original ==
    ExtrapolateCalled =>
        \A i \in 1..Len(other) :
            TimeOf(other, i) =
                IF i = Len(other) /\ log[1].args[2] THEN TimeOf(log[1].pre, i)
                ELSE log[1].args[1]

\* C13 amended: after extrapolate(time, keep_time) on a non-empty model the
\* rank count is unchanged, rank 0 has the time `time` and every rank i >= 1
\* has the time rank i-1 had before the call, except that the top rank
\* (rank 0 in a model of one rank) keeps its time when keep_time is set.
C13_TimesShiftUp ==
    ExtrapolateCalled =>
        /\ Len(other) = Len(log[1].pre)
        /\ \A i \in 1..Len(other) :
              TimeOf(other, i) =
                  IF i = Len(other) /\ log[1].args[2] THEN TimeOf(log[1].pre, i)
                  ELSE IF i = 1 THEN log[1].args[1]
                  ELSE TimeOf(log[1].pre, i - 1)

\* three ranks at three times, extrapolated with keep_time to a time that
\* is not rank 0's
C13_Witness ==
    /\ ExtrapolateCalled
    /\ Len(log[1].pre) = 3
    /\ log[1].args[2]
    /\ TimeOf(log[1].pre, 1) # log[1].args[1]
    /\ TimeOf(log[1].pre, 1) # TimeOf(log[1].pre, 2)
    /\ TimeOf(log[1].pre, 2) # TimeOf(log[1].pre, 3)

(***************************************************************************)
(* Cutting by magnitude: a table built by approximate() is cut with        *)
(* reduce(min_val=m), max_rank left out (test_reduce.py:68).               *)
(***************************************************************************)
\* obj.reduce(min_val=m, as_deriv=as_deriv)
DoReduceMin ==
    /\ log # <<>> => (log[1].op = "approximate" /\ log[1].ret # None)
    /\ \E m \in 0..MaxVal, as_deriv \in BOOLEAN :
          LET c == Reduce(deltas, None, Some(Rat(m)), as_deriv, FALSE)
          IN  /\ deltas' = c.d
              /\ log' = Push(Call("reduce_min", <<Rat(m), as_deriv>>, deltas, c.r))
    /\ UNCHANGED <<other, poly, steps, shared>>

NextMin == DoBuild \/ DoReduceMin

SpecMin == Init /\ [][NextMin]_vars

\* reduce(min_val=m) has returned (as_deriv left at its default)
ReducedByMin == LastIs("reduce_min") /\ ~log[1].args[2]

\* C14: reduce(min_val=m) keeps the ranks up to the highest one whose
\* magnitude exceeds m, rank 0 included in the scan, and none if no rank
\* exceeds m: it leaves exactly the num_deltas(m) lowest ranks, so a model
\* whose only rank above m is rank 0 is left with one rank.
C14_ReduceScansRankZero ==
    ReducedByMin =>
        LET n == NumDeltasMin(log[1].pre, log[1].args[1])
        IN  /\ deltas = Take(log[1].pre, n)
            /\ log[1].ret = Some(n)

(***************************************************************************)
(* Streaming with trimming (test_main.py:90-94): samples arrive at         *)
(* strictly increasing times, and after a sample the table may be cut to   *)
(* max_rank >= 1 ranks with keep_time=True.                                *)
(***************************************************************************)
\* the time of the latest sample: reduce() is called right after a sample
LatestSampleTime ==
    IF log[1].op = "approximate" THEN log[1].args[2] ELSE log[2].args[2]

\* the sample times of a stream of MaxSteps samples
StreamTimes == 0..(MaxSteps - 1)

\* res = obj.approximate(val, time), time later than every sample before
DoApproximateLater ==
    /\ steps < MaxSteps
    /\ Len(deltas) < MaxRanks
    /\ \E v \in Vals, t \in StreamTimes :
          /\ log # <<>> => t > LatestSampleTime
          /\ LET a == Approximate(deltas, Rat(v), t)
             IN  /\ deltas' = a.d
                 /\ log' = Push(Call("approximate", <<Rat(v), t>>, deltas, a.r))
    /\ steps' = steps + 1
    /\ UNCHANGED <<other, poly, shared>>

\* obj.reduce(max_rank, keep_time=True), leaving at least one rank
DoReduceKeepTime ==
    /\ LastIs("approximate")
    /\ \E k \in 1..Len(deltas) :
          LET c == Reduce(deltas, Some(k), None, FALSE, TRUE)
          IN  /\ deltas' = c.d
              /\ log' = Push(Call("reduce", <<k>>, deltas, c.r))
    /\ UNCHANGED <<other, poly, steps, shared>>

NextStream == DoApproximateLater \/ DoReduceKeepTime

SpecStream == Init /\ [][NextStream]_vars

\* every rank's time lies between the next rank's time and rank 0's
Telescoping ==
    \A i \in 1..Len(deltas) :
        /\ TimeOf(deltas, i) <= TimeOf(deltas, 1)
        /\ i < Len(deltas) => TimeOf(deltas, i + 1) <= TimeOf(deltas, i)

\* C15 as stated: in every state reached by samples at strictly increasing
\* times and reduce(max_rank, keep_time=True) calls leaving a rank, every
\* rank i has time[i+1] <= time[i] <= time[0], and rank 0's time is the
\* time of the latest sample.
C15_Original ==
    deltas # <<>> =>
        /\ Telescoping
        /\ TimeOf(deltas, 1) = LatestSampleTime

\* C15 amended: in every such state every rank i has
\* time[i+1] <= time[i] <= time[0]; rank 0's time is the time of the latest
\* sample while the model has two ranks or more, and in a model of one rank
\* it is no later than that: a reduce(1, keep_time=True) puts the time of
\* the rank that was on top on rank 0.
C15_Telescoping ==
    deltas # <<>> =>
        /\ Telescoping
        /\ Len(deltas) >= 2 => TimeOf(deltas, 1) = LatestSampleTime
        /\ TimeOf(deltas, 1) <= LatestSampleTime
        /\ (LastIs("reduce") /\ Len(deltas) = 1) =>
               TimeOf(deltas, 1) = TimeOf(log[1].pre, Len(log[1].pre))

\* a sample taken after the table was cut from three ranks to two, whose
\* top rank then had the time of the rank cut off
C15_Witness ==
    /\ Len(log) >= 2
    /\ log[1].op = "approximate"
    /\ log[2].op = "reduce"
    /\ Len(log[2].pre) = 3
    /\ Len(deltas) = 3
    /\ TimeOf(deltas, 3) = TimeOf(log[2].pre, 3)
    /\ TimeOf(deltas, 3) < TimeOf(log[2].pre, 2)

(***************************************************************************)
(* Arithmetic on two models (test_reduce.py:45; split_at_gap's own use,    *)
(* extrapolator.py:244, 252): obj is built by approximate(); other is      *)
(* loaded from a polynomial or split off a copy of obj, aligned to obj or  *)
(* not; then the two are added or subtracted, in either order.             *)
(***************************************************************************)
ArithReady ==
    /\ log # <<>>
    /\ log[1].op \in {"tmp_from_poly_coefs", "copy_split_at_gap", "align_times"}
    /\ other # <<>>

\* a + b
DoAddModels ==
    /\ ArithReady
    /\ \E swap \in BOOLEAN :
          LET a == IF swap THEN other ELSE deltas
              b == IF swap THEN deltas ELSE other
          IN  log' = Push(Call("add", <<a, b>>, <<deltas, other>>, Add(a, b)))
    /\ UNCHANGED <<deltas, other, poly, steps, shared>>

\* a - b
DoSubModels ==
    /\ ArithReady
    /\ \E swap \in BOOLEAN :
          LET a == IF swap THEN other ELSE deltas
              b == IF swap THEN deltas ELSE other
          IN  log' = Push(Call("sub", <<a, b>>, <<deltas, other>>, Sub(a, b)))
    /\ UNCHANGED <<deltas, other, poly, steps, shared>>

NextArith ==
    \/ DoBuild
    \/ DoOtherFromPolyCoefs
    \/ DoSplitCopy
    \/ DoAlignOther
    \/ DoAddModels
    \/ DoSubModels

SpecArith == Init /\ [][NextArith]_vars

\* a + b or a - b has returned
ArithDone == log # <<>> /\ log[1].op \in {"add", "sub"}

\* the two models differ in time at a rank both have
TimesDiffer(a, b) ==
    \E i \in 1..IMin(Len(a), Len(b)) : TimeOf(a, i) # TimeOf(b, i)

\* the table the claim describes: sums or differences at the shared ranks,
\* then the ranks only the longer operand has; negate_b says whether the
\* excess ranks of a longer b are negated in a difference
Combined(a, b, op, negate_b) ==
    [i \in 1..IMax(Len(a), Len(b)) |->
        IF i <= IMin(Len(a), Len(b))
        THEN <<IF op = "add" THEN RAdd(ValOf(a, i), ValOf(b, i))
                             ELSE RSub(ValOf(a, i), ValOf(b, i)), TimeOf(a, i)>>
        ELSE IF i <= Len(a) THEN a[i]
        ELSE IF op = "sub" /\ negate_b THEN <<RNeg(ValOf(b, i)), TimeOf(b, i)>>
        ELSE b[i]]

\* C11 as stated: a + b and a - b return None if the times differ at a
\* shared rank; otherwise a new model with the sums (differences) at the
\* shared ranks and the excess ranks of the longer operand unchanged.
\* Neither operand is modified.
C11_Original ==
    ArithDone =>
        LET a == log[1].args[1]
            b == log[1].args[2]
        IN  /\ log[1].ret = IF TimesDiffer(a, b) THEN None
                            ELSE Some(Combined(a, b, log[1].op, FALSE))
            /\ <<deltas, other>> = log[1].pre

\* C11 amended: as stated, except that in a - b the excess ranks of a
\* longer b are appended with their values negated.
C11_Arithmetic ==
    ArithDone =>
        LET a == log[1].args[1]
            b == log[1].args[2]
        IN  /\ log[1].ret = IF TimesDiffer(a, b) THEN None
                            ELSE Some(Combined(a, b, log[1].op, TRUE))
            /\ <<deltas, other>> = log[1].pre

\* a difference of aligned models whose b has a non-zero rank a lacks
C11_Witness ==
    /\ ArithDone
    /\ log[1].op = "sub"
    /\ log[1].ret # None
    /\ Len(log[1].args[2]) > Len(log[1].args[1])
    /\ Len(log[1].args[1]) >= 2
    /\ ~RIsZero(ValOf(log[1].args[2], Len(log[1].args[2])))
    /\ TimeOf(log[1].args[1], 1) # TimeOf(log[1].args[1], 2)

\* a sum refused for a time that differs at rank 1 only
C11_WitnessMisaligned ==
    /\ ArithDone
    /\ log[1].op = "add"
    /\ log[1].ret = None
    /\ TimeOf(log[1].args[1], 1) = TimeOf(log[1].args[2], 1)
    /\ TimeOf(log[1].args[1], 2) # TimeOf(log[1].args[2], 2)

(***************************************************************************)
(* Copies.  A Python list is an object: obj.deltas[i] = x changes the list *)
(* for every approximator whose deltas is that list, self.deltas = x makes *)
(* self.deltas another list.  shared says whether obj.deltas and           *)
(* other.deltas are one list object; the tuples in the lists are immutable.*)
(* An Effect is what a method does to the receiver: inplace is what the    *)
(* list object that was self.deltas holds after the call, final is the     *)
(* table self.deltas holds after the call, rebound says whether            *)
(* self.deltas is a new list object.                                       *)
(***************************************************************************)
\* a constructor storing src.deltas itself
CopyKeepsList(d) == [d |-> d, same_list |-> TRUE]

\* approximator.copy(): __init__ stores src.deltas.copy()
Copy(d) == [d |-> d, same_list |-> FALSE]

Effect(inplace, final, rebound) ==
    [inplace |-> inplace, final |-> final, rebound |-> rebound]

\* approximate: self.deltas = list(zip(...)), or nothing on a duplicate time
ApproximateEffect(d, val0, time0) ==
    LET a == Approximate(d, val0, time0)
    IN  IF a.r = None THEN Effect(d, d, FALSE) ELSE Effect(d, a.d, TRUE)

\* extrapolate: only self.deltas[i] = ...
ExtrapolateEffect(d, time0, keep_time) ==
    LET e == Extrapolate(d, time0, keep_time) IN Effect(e.d, e.d, FALSE)

\* rewind: self.deltas[i] = ... for all ranks but the top one, then
\* self.deltas = self.deltas[:-1]
RewindEffect(d) == Effect(Rewind(d) \o <<d[Len(d)]>>, Rewind(d), TRUE)

\* reduce: self.deltas = self.deltas[:max_rank], then an item of the new list
ReduceEffect(d, max_rank, keep_time) ==
    Effect(d, Reduce(d, Some(max_rank), None, FALSE, keep_time).d, TRUE)

\* make_derivs: extrapolate() calls only
MakeDerivsEffect(d, time) ==
    LET m == MakeDerivsAll(d, time) IN Effect(m.d, m.d, FALSE)

\* differentiate: make_derivs, then self.deltas = [...]
DifferentiateEffect(d, time0) ==
    LET m == MakeDerivsAll(d, time0)
        f == Differentiate(d, time0)
    IN  IF f.r THEN Effect(m.d, f.d, TRUE) ELSE Effect(m.d, m.d, FALSE)

\* integrate: make_derivs, then self.deltas = [...] + int_deltas
IntegrateEffect(d, val0, time0) ==
    LET m == MakeDerivsAll(d, time0)
        f == Integrate(d, val0, time0)
    IN  IF f.r THEN Effect(m.d, f.d, TRUE) ELSE Effect(m.d, m.d, FALSE)

\* align_times: extrapolate() calls only; ref_obj is read through a slice
AlignTimesEffect(d, ref) ==
    LET a == AlignTimes(d, ref) IN Effect(a.d, a.d, FALSE)

\* split_at_gap: self.reduce(split_rank); the rest is computed on copies
SplitAtGapEffect(d, split_rank) ==
    Effect(d, SplitAtGap(d, split_rank).d, TRUE)

\* from_poly_coefs: self.deltas = [...]
FromPolyCoefsEffect(d, coefs, time) ==
    Effect(d, FromPolyCoefs(coefs, time), TRUE)

\* the receiver's list is written in place and the receiver may get a new
\* list; the other object sees the writes if the list is its own too
Apply(on_copy, args, e) ==
    /\ steps < MaxSteps
    /\ IF on_copy
       THEN other' = e.final /\ deltas' = (IF shared THEN e.inplace ELSE deltas)
       ELSE deltas' = e.final /\ other' = (IF shared THEN e.inplace ELSE other)
    /\ shared' = (shared /\ ~e.rebound)
    /\ log' = Push(Call(IF on_copy THEN "on_copy" ELSE "on_original",
                        args, <<deltas, other>>, None))
    /\ steps' = steps + 1
    /\ UNCHANGED poly

\* one method call on c (on_copy) or on M, with the other as ref_obj
Method(on_copy) ==
    LET d == IF on_copy THEN other ELSE deltas
        ref == IF on_copy THEN deltas ELSE other
    IN  \/ \E v \in Vals, t \in Times :
              /\ Len(d) < MaxRanks
              /\ Apply(on_copy, <<"approximate", Rat(v), t>>, ApproximateEffect(d, Rat(v), t))
        \/ \E t \in Times, keep_time \in BOOLEAN :
              Apply(on_copy, <<"extrapolate", t, keep_time>>, ExtrapolateEffect(d, t, keep_time))
        \/ /\ d # <<>>
           /\ Apply(on_copy, <<"rewind">>, RewindEffect(d))
        \/ \E k \in 1..Len(d), keep_time \in BOOLEAN :
              Apply(on_copy, <<"reduce", k, keep_time>>, ReduceEffect(d, k, keep_time))
        \/ \E t \in Times :
              Apply(on_copy, <<"make_derivs", t>>, MakeDerivsEffect(d, t))
        \/ \E t \in Times :
              Apply(on_copy, <<"differentiate", t>>, DifferentiateEffect(d, t))
        \/ \E v \in Vals, t \in Times :
              /\ Len(d) < MaxRanks
              /\ Apply(on_copy, <<"integrate", Rat(v), t>>, IntegrateEffect(d, Rat(v), t))
        \/ Apply(on_copy, <<"align_times">>, AlignTimesEffect(d, ref))
        \/ \E k \in 1..Len(d) :
              Apply(on_copy, <<"split_at_gap", k>>, SplitAtGapEffect(d, k))
        \/ \E c \in SecondPolys, t \in Times :
              Apply(on_copy, <<"from_poly_coefs", c, t>>, FromPolyCoefsEffect(d, c, t))

\* c = M.copy()
DoCopy ==
    /\ LastIs("approximate") /\ log[1].ret # None
    /\ steps >= MaxSteps - 1
    /\ LET c == Copy(deltas)
       IN  /\ other' = c.d
           /\ shared' = c.same_list
    /\ log' = Push(Call("copy", <<>>, <<deltas, other>>, None))
    /\ UNCHANGED <<deltas, poly, steps>>

CopyMade == log # <<>> /\ log[1].op \in {"copy", "on_copy", "on_original"}

DoOnCopy == CopyMade /\ Method(TRUE)

DoOnOriginal == CopyMade /\ Method(FALSE)

NextCopy == DoBuild \/ DoCopy \/ DoOnCopy \/ DoOnOriginal

SpecCopy == Init /\ [][NextCopy]_vars

C12_WitnessOriginal ==
    /\ LastIs("on_original")
    /\ log[1].args[1] = "rewind"
    /\ Len(other) = 3
    /\ deltas # Take(other, 2)

====
